---- MODULE Spec2Model ----
(***************************************************************************)
(* Model of ip/iplink_vpls.c: the VPLS link-type option encoder            *)
(* (vpls_parse_opt) and decoder (vpls_print_opt).                          *)
(*                                                                         *)
(* Text (command-line tokens, rendered output) is a sequence of one-       *)
(* character strings.  A 32-bit unsigned value is its 4-byte little-endian *)
(* image <<b0,b1,b2,b3>>, which is also the payload addattr32 stores on a  *)
(* little-endian host; all arithmetic on it is done byte-wise so that the  *)
(* full 32-bit range is covered.                                           *)
(***************************************************************************)
EXTENDS Integers, Sequences, FiniteSets, TLC

(***************************************************************************)
(* Library helpers called by the file (lib/utils.c, lib/libnetlink.c, libc)*)
(***************************************************************************)

HexChars == <<"0","1","2","3","4","5","6","7","8","9","a","b","c","d","e","f">>

IsDigit(c, base) == \E k \in 1..base : HexChars[k] = c

DigitVal(c) == (CHOOSE k \in 1..16 : HexChars[k] = c) - 1

Zero32 == <<0, 0, 0, 0>>

U8to32(b) == <<b, 0, 0, 0>>

\* acc * base + d on a 4-byte image; carry # 0 when the result leaves 32 bits
MulAdd(acc, base, d) ==
    LET c1 == acc[1] * base + d
        c2 == acc[2] * base + (c1 \div 256)
        c3 == acc[3] * base + (c2 \div 256)
        c4 == acc[4] * base + (c3 \div 256)
    IN [val |-> <<c1 % 256, c2 % 256, c3 % 256, c4 % 256>>,
        carry |-> c4 \div 256]

\* the digit loop of strtoul: consumes the longest prefix of valid digits
RECURSIVE Accum(_, _, _, _, _)
Accum(s, base, acc, over, cnt) ==
    IF s = <<>> \/ ~IsDigit(Head(s), base)
    THEN [val |-> acc, over |-> over, cnt |-> cnt, rest |-> s]
    ELSE LET m == MulAdd(acc, base, DigitVal(Head(s)))
         IN Accum(Tail(s), base, m.val, over \/ m.carry # 0, cnt + 1)

HasHexPrefix(arg) ==
    /\ Len(arg) >= 3
    /\ arg[1] = "0" /\ arg[2] = "x"
    /\ IsDigit(arg[3], 16)

\* strtoul(arg, &ptr, base): value, overflow flag, digits converted, *ptr..
strtoul(arg, base) ==
    LET hex == base \in {0, 16} /\ HasHexPrefix(arg)
        b   == IF base # 0 THEN base
               ELSE IF hex THEN 16
               ELSE IF Len(arg) >= 1 /\ arg[1] = "0" THEN 8
               ELSE 10
        body == IF hex THEN SubSeq(arg, 3, Len(arg)) ELSE arg
    IN Accum(body, b, Zero32, FALSE, 0)

\* get_u32: 0 (ok) iff the whole token converts and fits 32 bits
get_u32(arg, base) ==
    LET r == strtoul(arg, base)
    IN IF arg = <<>> \/ r.cnt = 0 \/ r.rest # <<>> \/ r.over
       THEN [ok |-> FALSE, val |-> Zero32]
       ELSE [ok |-> TRUE, val |-> r.val]

\* get_unsigned: as get_u32, the result is an unsigned int
get_unsigned(arg, base) == get_u32(arg, base)

\* get_u8: additionally rejects res > 0xFF; the value is one byte
get_u8(arg, base) ==
    LET r == get_u32(arg, base)
    IN IF ~r.ok \/ r.val[2] # 0 \/ r.val[3] # 0 \/ r.val[4] # 0
       THEN [ok |-> FALSE, val |-> 0]
       ELSE [ok |-> TRUE, val |-> r.val[1]]

\* v / 10 and v % 10 on a 4-byte image (long division from the top byte)
DivMod10(v) ==
    LET c4 == v[4]
        c3 == (c4 % 10) * 256 + v[3]
        c2 == (c3 % 10) * 256 + v[2]
        c1 == (c2 % 10) * 256 + v[1]
    IN [q |-> <<c1 \div 10, c2 \div 10, c3 \div 10, c4 \div 10>>, r |-> c1 % 10]

RECURSIVE DecDigits(_)
DecDigits(v) ==
    IF v = Zero32 THEN <<>>
    ELSE LET d == DivMod10(v) IN Append(DecDigits(d.q), HexChars[d.r + 1])

\* printf("%u", v)
FormatU(v) == IF v = Zero32 THEN <<"0">> ELSE DecDigits(v)

RECURSIVE HexDigits(_)
HexDigits(w) ==
    IF w = 0 THEN <<>> ELSE Append(HexDigits(w \div 16), HexChars[(w % 16) + 1])

\* sprintf("%x", w) for a 16-bit word
FormatX(w) == IF w = 0 THEN <<"0">> ELSE HexDigits(w)

\* matches(cmd, pattern) == 0: cmd is a (possibly complete) prefix of pattern
matches(cmd, pattern) ==
    /\ Len(cmd) <= Len(pattern)
    /\ SubSeq(pattern, 1, Len(cmd)) = cmd

\* inet_pton(AF_INET, ..): dotted quad, octets <= 255, no leading zeros
RECURSIVE Pton4(_, _, _, _)
Pton4(s, done, cur, saw) ==
    IF s = <<>>
    THEN IF saw /\ Len(done) = 3
         THEN [ok |-> TRUE, addr |-> Append(done, cur)]
         ELSE [ok |-> FALSE, addr |-> Zero32]
    ELSE LET ch == Head(s) IN
         IF IsDigit(ch, 10)
         THEN LET new == cur * 10 + DigitVal(ch) IN
              IF (saw /\ cur = 0) \/ new > 255
              THEN [ok |-> FALSE, addr |-> Zero32]
              ELSE Pton4(Tail(s), done, new, TRUE)
         ELSE IF ch = "." /\ saw /\ Len(done) < 3
         THEN Pton4(Tail(s), Append(done, cur), 0, FALSE)
         ELSE [ok |-> FALSE, addr |-> Zero32]

inet_pton4(src) == Pton4(src, <<>>, 0, FALSE)

\* inet_ntop(AF_INET, ..)
inet_ntop4(a) ==
    FormatU(U8to32(a[1])) \o <<".">> \o FormatU(U8to32(a[2])) \o <<".">> \o
    FormatU(U8to32(a[3])) \o <<".">> \o FormatU(U8to32(a[4]))

Zero128 == [k \in 1..16 |-> 0]

WordsToBytes(w) == [k \in 1..16 |-> IF k % 2 = 1 THEN w[(k + 1) \div 2] \div 256
                                    ELSE w[k \div 2] % 256]

BytesToWords(a) == [k \in 1..8 |-> a[2 * k - 1] * 256 + a[2 * k]]

\* the loop of inet_pton(AF_INET6, ..) without the embedded dotted-quad form;
\* colonp is the number of words before "::", or -1
RECURSIVE Pton6(_, _, _, _, _)
Pton6(s, words, val, seen, colonp) ==
    IF s = <<>>
    THEN LET w == IF seen > 0 THEN Append(words, val) ELSE words IN
         IF seen > 0 /\ Len(words) >= 8 THEN [ok |-> FALSE, addr |-> Zero128]
         ELSE IF colonp # -1
         THEN IF Len(w) >= 8 THEN [ok |-> FALSE, addr |-> Zero128]
              ELSE [ok |-> TRUE,
                    addr |-> WordsToBytes(
                        SubSeq(w, 1, colonp) \o
                        [k \in 1..(8 - Len(w)) |-> 0] \o
                        SubSeq(w, colonp + 1, Len(w)))]
         ELSE IF Len(w) = 8 THEN [ok |-> TRUE, addr |-> WordsToBytes(w)]
              ELSE [ok |-> FALSE, addr |-> Zero128]
    ELSE LET ch == Head(s) IN
         IF IsDigit(ch, 16)
         THEN IF seen + 1 > 4 THEN [ok |-> FALSE, addr |-> Zero128]
              ELSE Pton6(Tail(s), words, val * 16 + DigitVal(ch), seen + 1, colonp)
         ELSE IF ch = ":"
         THEN IF seen = 0
              THEN IF colonp # -1 THEN [ok |-> FALSE, addr |-> Zero128]
                   ELSE Pton6(Tail(s), words, val, seen, Len(words))
              ELSE IF Tail(s) = <<>> \/ Len(words) >= 8
                   THEN [ok |-> FALSE, addr |-> Zero128]
                   ELSE Pton6(Tail(s), Append(words, val), 0, 0, colonp)
         ELSE [ok |-> FALSE, addr |-> Zero128]

inet_pton6(src) ==
    IF src # <<>> /\ Head(src) = ":"
    THEN IF Len(src) >= 2 /\ src[2] = ":"
         THEN Pton6(Tail(src), <<>>, 0, 0, -1)
         ELSE [ok |-> FALSE, addr |-> Zero128]
    ELSE Pton6(src, <<>>, 0, 0, -1)

\* length of the run of zero words of w starting at index k (1-based)
RECURSIVE ZeroRun(_, _)
ZeroRun(w, k) == IF k > 8 \/ w[k] # 0 THEN 0 ELSE 1 + ZeroRun(w, k + 1)

\* first longest run of at least two zero words: <<base, len>>, base 0 = none
BestRun(w) ==
    LET starts == {k \in 1..8 : ZeroRun(w, k) >= 2 /\ (k = 1 \/ w[k - 1] # 0)}
    IN IF starts = {} THEN <<0, 0>>
       ELSE LET b == CHOOSE k \in starts :
                        \A j \in starts : \/ ZeroRun(w, j) < ZeroRun(w, k)
                                          \/ (ZeroRun(w, j) = ZeroRun(w, k) /\ k <= j)
            IN <<b, ZeroRun(w, b)>>

RECURSIVE Ntop6(_, _, _, _)
Ntop6(a, w, best, k) ==
    IF k > 8
    THEN IF best[1] # 0 /\ best[1] + best[2] = 9 THEN <<":">> ELSE <<>>
    ELSE IF best[1] # 0 /\ k >= best[1] /\ k < best[1] + best[2]
    THEN (IF k = best[1] THEN <<":">> ELSE <<>>) \o Ntop6(a, w, best, k + 1)
    ELSE (IF k # 1 THEN <<":">> ELSE <<>>) \o
         (IF /\ k = 7 /\ best[1] = 1
             /\ \/ best[2] = 6
                \/ (best[2] = 7 /\ w[8] # 1)
                \/ (best[2] = 5 /\ w[6] = 65535)
          THEN inet_ntop4(<<a[13], a[14], a[15], a[16]>>)
          ELSE FormatX(w[k]) \o Ntop6(a, w, best, k + 1))

\* inet_ntop(AF_INET6, ..)
inet_ntop6(a) == Ntop6(a, BytesToWords(a), BestRun(BytesToWords(a)), 1)

\* inet_get_addr: a token with ':' is IPv6, anything else IPv4; only the
\* slot of the family that parsed is written
HasColon(src) == \E k \in 1..Len(src) : src[k] = ":"

inet_get_addr(src, dst, dst6) ==
    IF HasColon(src)
    THEN LET r == inet_pton6(src)
         IN [ok |-> r.ok, dst |-> dst, dst6 |-> IF r.ok THEN r.addr ELSE dst6]
    ELSE LET r == inet_pton4(src)
         IN [ok |-> r.ok, dst |-> IF r.ok THEN r.addr ELSE dst, dst6 |-> dst6]

\* format_host without host-name resolution
format_host(af, a) == IF af = "AF_INET" THEN inet_ntop4(a) ELSE inet_ntop6(a)

IN6_IS_ADDR_UNSPECIFIED(a) == a = Zero128

(***************************************************************************)
(* String literals of iplink_vpls.c                                        *)
(***************************************************************************)

s_id == <<"i","d">>

s_via == <<"v","i","a">>

s_vlan == <<"v","l","a","n">>

s_dev == <<"d","e","v">>

s_ttl == <<"t","t","l">>

s_hoplimit == <<"h","o","p","l","i","m","i","t">>

s_input == <<"i","n","p","u","t">>

s_output == <<"o","u","t","p","u","t">>

s_help == <<"h","e","l","p">>

s_inherit == <<"i","n","h","e","r","i","t">>

s_fmt_id == <<"i","d"," ">>

s_fmt_label_in == <<"l","a","b","e","l"," ","i","n"," ">>

s_fmt_out == <<"o","u","t"," ">>

s_fmt_vlan == <<"v","l","a","n"," ">>

s_fmt_via_inet == <<"v","i","a"," ","i","n","e","t"," ">>

s_fmt_via_inet6 == <<"v","i","a"," ","i","n","e","t","6"," ">>

s_fmt_dev == <<"d","e","v"," ">>

s_fmt_ttl == <<"t","t","l"," ">>

SP == <<" ">>

(***************************************************************************)
(* State                                                                   *)
(***************************************************************************)

VARIABLES
    args,       \* the command line handed to vpls_parse_opt (argv at entry)
    argc,       \* tokens not yet consumed; *argv is args[Len(args) - argc + 1]
    n,          \* attributes appended to the message, in order
    via_addr,   \* IPv4 next-hop slot, 4 bytes in network order
    via_addr6,  \* IPv6 next-hop slot, 16 bytes
    pc,         \* "parse" | "returned" | "exited" | "received" | "printed"
    ret,        \* value returned by vpls_parse_opt, "none" before it returns
    err,        \* what was written to stderr, one entry per message
    tb,         \* the tag -> payload mapping handed to vpls_print_opt
    out         \* text written to f by vpls_print_opt

vars == <<args, argc, n, via_addr, via_addr6, pc, ret, err, tb, out>>

\* attribute tags of the IFLA_VPLS_* enumeration
IFLA_VPLS_ID == "IFLA_VPLS_ID"

IFLA_VPLS_IN_LABEL == "IFLA_VPLS_IN_LABEL"

IFLA_VPLS_OUT_LABEL == "IFLA_VPLS_OUT_LABEL"

IFLA_VPLS_OIF == "IFLA_VPLS_OIF"

IFLA_VPLS_TTL == "IFLA_VPLS_TTL"

IFLA_VPLS_VLANID == "IFLA_VPLS_VLANID"

IFLA_VPLS_NH == "IFLA_VPLS_NH"

IFLA_VPLS_NH6 == "IFLA_VPLS_NH6"

Tags == {IFLA_VPLS_ID, IFLA_VPLS_IN_LABEL, IFLA_VPLS_OUT_LABEL, IFLA_VPLS_OIF,
         IFLA_VPLS_TTL, IFLA_VPLS_VLANID, IFLA_VPLS_NH, IFLA_VPLS_NH6}

\* a null struct rtattr **: a mapping that holds no tag
NULL == [t \in {"NULL"} |-> <<>>]

\* LABEL_MAX_MASK (0xFFFFF) as a byte image
LABEL_MAX_MASK == <<255, 255, 15, 0>>

\* the interfaces known to if_nametoindex / if_indextoname
IfTable == {[index |-> <<1, 0, 0, 0>>, name |-> <<"l","o">>],
            [index |-> <<2, 0, 0, 0>>, name |-> <<"e","t","h","0">>]}

if_nametoindex(name) ==
    IF \E e \in IfTable : e.name = name
    THEN (CHOOSE e \in IfTable : e.name = name).index
    ELSE Zero32

\* if_indextoname: the name, or <<>> for a null result
if_indextoname(index) ==
    IF \E e \in IfTable : e.index = index
    THEN (CHOOSE e \in IfTable : e.index = index).name
    ELSE <<>>

\* addattr32 / addattr8 / addattr_l: append one attribute to the message
addattr_l(buf, type, data) == Append(buf, [type |-> type, data |-> data])

addattr32(buf, type, data) == addattr_l(buf, type, data)

addattr8(buf, type, data) == addattr_l(buf, type, <<data>>)

RTA_PAYLOAD(rta) == Len(rta)

rta_getattr_u32(rta) == SubSeq(rta, 1, 4)

rta_getattr_u8(rta) == rta[1]

(***************************************************************************)
(* vpls_parse_opt                                                          *)
(***************************************************************************)

\* *argv
CurArg == args[Len(args) - argc + 1]

\* *argv after NEXT_ARG()
NextArg == args[Len(args) - argc + 2]

\* the if / else-if chain of the while loop: which branch takes the token
Keyword(tok) ==
    IF matches(tok, s_id) THEN "id"
    ELSE IF matches(tok, s_via) THEN "via"
    ELSE IF matches(tok, s_vlan) THEN "vlan"
    ELSE IF matches(tok, s_dev) THEN "dev"
    ELSE IF matches(tok, s_ttl) \/ matches(tok, s_hoplimit) THEN "ttl"
    ELSE IF matches(tok, s_input) THEN "input"
    ELSE IF matches(tok, s_output) THEN "output"
    ELSE IF matches(tok, s_help) THEN "help"
    ELSE "unknown"

InBranch(k) == pc = "parse" /\ argc > 0 /\ Keyword(CurArg) = k

\* invarg(): report the offending argument and exit(-1)
invarg(msg, arg) ==
    /\ pc' = "exited"
    /\ err' = Append(err, [msg |-> msg, arg |-> arg])
    /\ argc' = argc - 1
    /\ UNCHANGED <<args, n, via_addr, via_addr6, ret, tb, out>>

\* incomplete_command(), reached from NEXT_ARG() when no token is left
incomplete_command ==
    /\ pc' = "exited"
    /\ err' = Append(err, [msg |-> "Command line is not complete", arg |-> <<>>])
    /\ argc' = argc - 1
    /\ UNCHANGED <<args, n, via_addr, via_addr6, ret, tb, out>>

\* the keyword and its value are consumed and buf is the message afterwards
Consumed(buf) ==
    /\ n' = buf
    /\ argc' = argc - 2
    /\ UNCHANGED <<args, via_addr, via_addr6, pc, ret, err, tb, out>>

\* print_explain(f): the usage text
print_explain(f) == Append(f, [msg |-> "Usage", arg |-> <<>>])

\* variant: only the top byte is tested, so 24-bit values pass
LabelOutOfRange_TopByteOnly(uval) == uval[4] # 0

\* uval & ~LABEL_MAX_MASK
LabelOutOfRange(uval) ==
    \E k \in 1..4 : uval[k] - (uval[k] % (LABEL_MAX_MASK[k] + 1)) # 0

\* uval > 255
TtlOutOfRange(uval) == uval[2] # 0 \/ uval[3] # 0 \/ uval[4] # 0

ParseId ==
    /\ InBranch("id")
    /\ IF argc - 1 <= 0 THEN incomplete_command
       ELSE LET r == get_u32(NextArg, 0) IN
            IF ~r.ok THEN invarg("invalid id", NextArg)
            ELSE Consumed(addattr32(n, IFLA_VPLS_ID, r.val))

\* variant: the next hop is appended as soon as "via" is parsed
ParseVia_EmitNow ==
    /\ InBranch("via")
    /\ IF argc - 1 <= 0 THEN incomplete_command
       ELSE LET r == inet_get_addr(NextArg, via_addr, via_addr6) IN
            IF ~r.ok THEN invarg("invalid address", NextArg)
            ELSE /\ via_addr' = r.dst
                 /\ via_addr6' = r.dst6
                 /\ n' = IF r.dst # Zero32
                         THEN addattr_l(n, IFLA_VPLS_NH, r.dst)
                         ELSE addattr_l(n, IFLA_VPLS_NH6, r.dst6)
                 /\ argc' = argc - 2
                 /\ UNCHANGED <<args, pc, ret, err, tb, out>>

ParseVia ==
    /\ InBranch("via")
    /\ IF argc - 1 <= 0 THEN incomplete_command
       ELSE LET r == inet_get_addr(NextArg, via_addr, via_addr6) IN
            IF ~r.ok THEN invarg("invalid address", NextArg)
            ELSE /\ via_addr' = r.dst
                 /\ via_addr6' = r.dst6
                 /\ argc' = argc - 2
                 /\ UNCHANGED <<args, n, pc, ret, err, tb, out>>

ParseVlan ==
    /\ InBranch("vlan")
    /\ IF argc - 1 <= 0 THEN incomplete_command
       ELSE LET r == get_u8(NextArg, 0) IN
            IF ~r.ok THEN invarg("invalid vlan id", NextArg)
            ELSE Consumed(addattr8(n, IFLA_VPLS_VLANID, r.val))

ParseDev ==
    /\ InBranch("dev")
    /\ IF argc - 1 <= 0 THEN incomplete_command
       ELSE LET link == if_nametoindex(NextArg) IN
            IF link = Zero32 THEN invarg("invalid device", NextArg)
            ELSE Consumed(addattr32(n, IFLA_VPLS_OIF, link))

\* the attributes "ttl VALUE" appends for a VALUE that passed both checks
TtlAttrs(buf, uval) == addattr8(buf, IFLA_VPLS_TTL, uval[1])

ParseTtl ==
    /\ InBranch("ttl")
    /\ IF argc - 1 <= 0 THEN incomplete_command
       ELSE IF NextArg # s_inherit
       THEN LET r == get_unsigned(NextArg, 0) IN
            IF ~r.ok THEN invarg("invalid TTL", NextArg)
            ELSE IF TtlOutOfRange(r.val) THEN invarg("TTL must be <= 255", NextArg)
            ELSE Consumed(TtlAttrs(n, r.val))
       ELSE Consumed(n)

ParseInput ==
    /\ InBranch("input")
    /\ IF argc - 1 <= 0 THEN incomplete_command
       ELSE LET r == get_u32(NextArg, 0) IN
            IF ~r.ok \/ LabelOutOfRange(r.val)
            THEN invarg("invalid input label", NextArg)
            ELSE Consumed(addattr32(n, IFLA_VPLS_IN_LABEL, r.val))

ParseOutput ==
    /\ InBranch("output")
    /\ IF argc - 1 <= 0 THEN incomplete_command
       ELSE LET r == get_u32(NextArg, 0) IN
            IF ~r.ok \/ LabelOutOfRange(r.val)
            THEN invarg("invalid output label", NextArg)
            ELSE Consumed(addattr32(n, IFLA_VPLS_OUT_LABEL, r.val))

\* variant: "help" reports success
ParseHelp_ReturnsZero ==
    /\ InBranch("help")
    /\ err' = print_explain(err)
    /\ ret' = 0
    /\ pc' = "returned"
    /\ UNCHANGED <<args, argc, n, via_addr, via_addr6, tb, out>>

ParseHelp ==
    /\ InBranch("help")
    /\ err' = print_explain(err)
    /\ ret' = -1
    /\ pc' = "returned"
    /\ UNCHANGED <<args, argc, n, via_addr, via_addr6, tb, out>>

ParseUnknown ==
    /\ InBranch("unknown")
    /\ err' = print_explain(Append(err, [msg |-> "vpls: unknown command", arg |-> CurArg]))
    /\ ret' = -1
    /\ pc' = "returned"
    /\ UNCHANGED <<args, argc, n, via_addr, via_addr6, tb, out>>

\* variant: the IPv6 slot is tested first
NextHopAttrs_V6First(buf, v4, v6) ==
    IF ~IN6_IS_ADDR_UNSPECIFIED(v6) THEN addattr_l(buf, IFLA_VPLS_NH6, v6)
    ELSE IF v4 # Zero32 THEN addattr_l(buf, IFLA_VPLS_NH, v4)
    ELSE buf

\* the next-hop emission after the loop
NextHopAttrs(buf, v4, v6) ==
    IF v4 # Zero32 THEN addattr_l(buf, IFLA_VPLS_NH, v4)
    ELSE IF ~IN6_IS_ADDR_UNSPECIFIED(v6) THEN addattr_l(buf, IFLA_VPLS_NH6, v6)
    ELSE buf

EndOfParse ==
    /\ pc = "parse" /\ argc <= 0
    /\ n' = NextHopAttrs(n, via_addr, via_addr6)
    /\ ret' = 0
    /\ pc' = "returned"
    /\ UNCHANGED <<args, argc, via_addr, via_addr6, err, tb, out>>

(***************************************************************************)
(* vpls_print_opt                                                          *)
(***************************************************************************)

Has(t, tag) == tag \in DOMAIN t

PrintId(t) == s_fmt_id \o FormatU(rta_getattr_u32(t[IFLA_VPLS_ID])) \o SP

PrintInLabel(t) ==
    IF Has(t, IFLA_VPLS_IN_LABEL)
    THEN LET val == rta_getattr_u32(t[IFLA_VPLS_IN_LABEL]) IN
         IF val # Zero32 THEN s_fmt_label_in \o FormatU(val) \o SP ELSE <<>>
    ELSE <<>>

PrintOutLabel(t) ==
    IF Has(t, IFLA_VPLS_OUT_LABEL)
    THEN LET val == rta_getattr_u32(t[IFLA_VPLS_OUT_LABEL]) IN
         IF val # Zero32 THEN s_fmt_out \o FormatU(val) \o SP ELSE <<>>
    ELSE <<>>

PrintVlan(t) ==
    IF Has(t, IFLA_VPLS_VLANID)
    THEN LET vlanid == rta_getattr_u8(t[IFLA_VPLS_VLANID]) IN
         IF vlanid # 0 THEN s_fmt_vlan \o FormatU(U8to32(vlanid)) \o SP ELSE <<>>
    ELSE <<>>

PrintNextHop(t) ==
    IF Has(t, IFLA_VPLS_NH)
    THEN LET addr == rta_getattr_u32(t[IFLA_VPLS_NH]) IN
         IF addr # Zero32
         THEN s_fmt_via_inet \o format_host("AF_INET", addr) \o SP
         ELSE <<>>
    ELSE IF Has(t, IFLA_VPLS_NH6)
    THEN LET addr == SubSeq(t[IFLA_VPLS_NH6], 1, 16) IN
         IF ~IN6_IS_ADDR_UNSPECIFIED(addr)
         THEN s_fmt_via_inet6 \o format_host("AF_INET6", addr) \o SP
         ELSE <<>>
    ELSE <<>>

\* variant: an index of 0 is treated as unset, like the other fields
PrintOif_SkipZero(t) ==
    IF Has(t, IFLA_VPLS_OIF)
    THEN LET link == rta_getattr_u32(t[IFLA_VPLS_OIF])
             name == if_indextoname(link)
         IN IF link = Zero32 THEN <<>>
            ELSE IF name # <<>> THEN s_fmt_dev \o name \o SP
            ELSE s_fmt_dev \o FormatU(link) \o SP
    ELSE <<>>

PrintOif(t) ==
    IF Has(t, IFLA_VPLS_OIF)
    THEN LET link == rta_getattr_u32(t[IFLA_VPLS_OIF])
             name == if_indextoname(link)
         IN IF name # <<>> THEN s_fmt_dev \o name \o SP
            ELSE s_fmt_dev \o FormatU(link) \o SP
    ELSE <<>>

PrintTtl(t) ==
    IF Has(t, IFLA_VPLS_TTL)
    THEN LET ttl == rta_getattr_u8(t[IFLA_VPLS_TTL]) IN
         IF ttl # 0 THEN s_fmt_ttl \o FormatU(U8to32(ttl)) \o SP ELSE <<>>
    ELSE <<>>

\* the early returns: a null mapping, or no ID of at least sizeof(__u32) bytes
IdUnreadable(t) ==
    \/ t = NULL
    \/ ~Has(t, IFLA_VPLS_ID)
    \/ RTA_PAYLOAD(t[IFLA_VPLS_ID]) < 4

\* variant: VLAN is rendered before the labels
vpls_print_opt_VlanFirst(t) ==
    IF IdUnreadable(t) THEN <<>>
    ELSE PrintId(t) \o PrintVlan(t) \o PrintInLabel(t) \o PrintOutLabel(t) \o
         PrintNextHop(t) \o PrintOif(t) \o PrintTtl(t)

\* variant: an unreadable ID only suppresses the "id" field
vpls_print_opt_NoEarlyReturn(t) ==
    (IF IdUnreadable(t) THEN <<>> ELSE PrintId(t)) \o
    PrintInLabel(t) \o PrintOutLabel(t) \o PrintVlan(t) \o
    PrintNextHop(t) \o PrintOif(t) \o PrintTtl(t)

\* everything vpls_print_opt writes to f for the mapping t
vpls_print_opt(t) ==
    IF IdUnreadable(t) THEN <<>>
    ELSE PrintId(t) \o PrintInLabel(t) \o PrintOutLabel(t) \o PrintVlan(t) \o
         PrintNextHop(t) \o PrintOif(t) \o PrintTtl(t)

PrintOpt ==
    /\ pc = "received"
    /\ out' = out \o vpls_print_opt(tb)
    /\ pc' = "printed"
    /\ UNCHANGED <<args, argc, n, via_addr, via_addr6, ret, err, tb>>

\* parse_rtattr: the first attribute of each tag in the list
parse_rtattr(buf) ==
    [t \in {buf[k].type : k \in 1..Len(buf)} |->
        buf[CHOOSE k \in 1..Len(buf) :
                /\ buf[k].type = t
                /\ \A j \in 1..(k - 1) : buf[j].type # t].data]

\* the attributes built by a successful parse come back as a mapping
ParseRtattr ==
    /\ pc = "returned" /\ ret = 0
    /\ tb' = parse_rtattr(n)
    /\ pc' = "received"
    /\ UNCHANGED <<args, argc, n, via_addr, via_addr6, ret, err, out>>

(***************************************************************************)
(* Inputs                                                                  *)
(***************************************************************************)

\* number of keyword clauses on a command line of the encoder
MaxOpts == 2

t_bogus == <<"b","o","g","u","s">>

KeywordValues ==
    { [kw |-> s_id, vals |-> {<<"0">>,
                               <<"1","0","0">>,
                               <<"1","6","7","7","7","2","1","5">>,
                               <<"1","6","7","7","7","2","1","6">>,
                               <<"4","2","9","4","9","6","7","2","9","5">>,
                               <<"4","2","9","4","9","6","7","2","9","6">>,
                               <<"a","b","c">>,
                               <<"0","x","1","0">>}],
      [kw |-> s_vlan, vals |-> {<<"0">>,
                                 <<"5">>,
                                 <<"2","5","5">>,
                                 <<"2","5","6">>,
                                 <<"a","b","c">>}],
      [kw |-> <<"v","l">>, vals |-> {<<"5">>}],
      [kw |-> s_dev, vals |-> {<<"e","t","h","0">>,
                                <<"n","o","d","e","v">>}],
      [kw |-> s_ttl, vals |-> {<<"i","n","h","e","r","i","t">>,
                                <<"0">>,
                                <<"6","4">>,
                                <<"2","5","5">>,
                                <<"2","5","6">>,
                                <<"a","b","c">>}],
      [kw |-> s_hoplimit, vals |-> {<<"i","n","h","e","r","i","t">>,
                                     <<"6","4">>,
                                     <<"2","5","6">>}],
      [kw |-> s_input, vals |-> {<<"0">>,
                                  <<"2","0">>,
                                  <<"1","0","4","8","5","7","5">>,
                                  <<"1","0","4","8","5","7","6">>,
                                  <<"4","2","9","4","9","6","7","2","9","5">>,
                                  <<"a","b","c">>}],
      [kw |-> s_output, vals |-> {<<"0">>,
                                   <<"3","0">>,
                                   <<"1","0","4","8","5","7","5">>,
                                   <<"1","0","4","8","5","7","6">>,
                                   <<"4","2","9","4","9","6","7","2","9","5">>,
                                   <<"a","b","c">>}],
      [kw |-> s_via, vals |-> {<<"1","0",".","0",".","0",".","1">>,
                                <<"0",".","0",".","0",".","0">>,
                                <<"f","e","8","0",":",":","1">>,
                                <<":",":">>,
                                <<"1","0",".","0",".","0",".","2","5","6">>,
                                <<"b","a","d">>}],
      [kw |-> <<"v">>, vals |-> {<<"1","9","2",".","1","6","8",".","1",".","2","5","4">>}] }

\* a keyword with its value, or a single token
Clauses ==
    UNION {{<<e.kw, v>> : v \in e.vals} : e \in KeywordValues}
        \cup {<<s_help>>, <<t_bogus>>, <<s_id>>}

\* the tokens of the clauses f[1], f[2], ... in order
RECURSIVE Flatten(_)
Flatten(f) == IF f = <<>> THEN <<>> ELSE Head(f) \o Flatten(Tail(f))

InitCommon ==
    /\ argc = Len(args)
    /\ n = <<>>
    /\ via_addr = Zero32
    /\ via_addr6 = Zero128
    /\ pc = "parse"
    /\ ret = "none"
    /\ err = <<>>
    /\ tb = NULL
    /\ out = <<>>

(***************************************************************************)
(* Spec: vpls_parse_opt on short command lines of arbitrary clauses         *)
(***************************************************************************)

Init ==
    /\ \E k \in 0..MaxOpts : \E f \in [1..k -> Clauses] : args = Flatten(f)
    /\ InitCommon

Next ==
    \/ ParseId
    \/ ParseVia
    \/ ParseVlan
    \/ ParseDev
    \/ ParseTtl
    \/ ParseInput
    \/ ParseOutput
    \/ ParseHelp
    \/ ParseUnknown
    \/ EndOfParse

Spec == Init /\ [][Next]_vars

(***************************************************************************)
(* SpecRT: a full command line, each option once, encoded then decoded      *)
(***************************************************************************)

RTClauses ==
    { <<<<s_id, id>>, <<s_vlan, vlan>>, <<s_ttl, ttl>>,
        <<s_input, input>>, <<s_output, output>>, <<s_via, via>>>> :
        id \in {<<"1","0","0">>,
                <<"1","6","7","7","7","2","1","6">>},
        vlan \in {<<"5">>,
                  <<"2","5","5">>},
        ttl \in {<<"1","0">>,
                 <<"2","5","5">>},
        input \in {<<"2","0">>,
                   <<"1","0","4","8","5","7","5">>},
        output \in {<<"3","0">>},
        via \in {<<"1","0",".","0",".","0",".","1">>,
                 <<"1","9","2",".","1","6","8",".","1",".","2","5","4">>} }

Orders == {p \in [1..6 -> 1..6] : \A i, j \in 1..6 : p[i] = p[j] => i = j}

InitRT ==
    /\ \E c \in RTClauses, p \in Orders :
          args = c[p[1]] \o c[p[2]] \o c[p[3]] \o c[p[4]] \o c[p[5]] \o c[p[6]]
    /\ InitCommon

NextRT ==
    \/ ParseId
    \/ ParseVia
    \/ ParseVlan
    \/ ParseTtl
    \/ ParseInput
    \/ ParseOutput
    \/ EndOfParse
    \/ ParseRtattr
    \/ PrintOpt

SpecRT == InitRT /\ [][NextRT]_vars

(***************************************************************************)
(* SpecPrint: vpls_print_opt on the mappings a link dump can deliver        *)
(***************************************************************************)

\* per tag: <<>> when the tag is absent, else <<payload>>
TbOptions ==
    [ id  |-> {<<>>, <<<<1, 2>>>>, <<Zero32>>, <<<<100, 0, 0, 0>>>>},
      inl |-> {<<>>, <<Zero32>>, <<<<20, 0, 0, 0>>>>},
      outl |-> {<<>>, <<Zero32>>, <<<<30, 0, 0, 0>>>>},
      vlan |-> {<<>>, <<<<0>>>>, <<<<5>>>>},
      nh  |-> {<<>>, <<Zero32>>, <<<<10, 0, 0, 1>>>>},
      nh6 |-> {<<>>, <<Zero128>>, <<WordsToBytes(<<65152, 0, 0, 0, 0, 0, 0, 1>>)>>},
      oif |-> {<<>>, <<Zero32>>, <<<<2, 0, 0, 0>>>>, <<<<7, 0, 0, 0>>>>},
      ttl |-> {<<>>, <<<<0>>>>, <<<<64>>>>} ]

MkTb(o) ==
    [t \in {x \in Tags : o[x] # <<>>} |-> o[t][1]]

TbSet ==
    { MkTb([x \in Tags |->
              CASE x = IFLA_VPLS_ID -> a
                [] x = IFLA_VPLS_IN_LABEL -> b
                [] x = IFLA_VPLS_OUT_LABEL -> c
                [] x = IFLA_VPLS_VLANID -> d
                [] x = IFLA_VPLS_NH -> e
                [] x = IFLA_VPLS_NH6 -> f
                [] x = IFLA_VPLS_OIF -> g
                [] x = IFLA_VPLS_TTL -> h]) :
        a \in TbOptions.id, b \in TbOptions.inl, c \in TbOptions.outl,
        d \in TbOptions.vlan, e \in TbOptions.nh, f \in TbOptions.nh6,
        g \in TbOptions.oif, h \in TbOptions.ttl }

InitPrint ==
    /\ args = <<>>
    /\ argc = 0
    /\ n = <<>>
    /\ via_addr = Zero32
    /\ via_addr6 = Zero128
    /\ pc = "received"
    /\ ret = "none"
    /\ err = <<>>
    /\ tb \in TbSet \cup {NULL}
    /\ out = <<>>

NextPrint == PrintOpt

SpecPrint == InitPrint /\ [][NextPrint]_vars

(***************************************************************************)
(* Properties                                                              *)
(***************************************************************************)

\* limits documented by print_explain
IdMax == 16777215

LabelMax == 1048575

TtlMax == 255

Returned(v) == pc = "returned" /\ ret = v

Count(buf, tag) == Cardinality({k \in 1..Len(buf) : buf[k].type = tag})

Contains(s, sub) ==
    \E k \in 1..(Len(s) - Len(sub) + 1) : SubSeq(s, k, k + Len(sub) - 1) = sub

AllDecimal(tok) == tok # <<>> /\ \A k \in 1..Len(tok) : IsDigit(tok[k], 10)

\* a decimal numeral without leading zeros
CanonDec(tok) == AllDecimal(tok) /\ (Len(tok) > 1 => tok[1] # "0")

\* a token that is no numeral in any base strtoul accepts
NonNumeric(tok) ==
    /\ ~AllDecimal(tok)
    /\ ~(/\ Len(tok) >= 3 /\ tok[1] = "0" /\ tok[2] = "x"
         /\ \A k \in 3..Len(tok) : IsDigit(tok[k], 16))

\* value of a decimal numeral of at most 9 digits
RECURSIVE NatOf(_)
NatOf(tok) ==
    IF tok = <<>> THEN 0
    ELSE NatOf(SubSeq(tok, 1, Len(tok) - 1)) * 10 + DigitVal(tok[Len(tok)])

\* the numeral tok (CanonDec) denotes a value greater than bound
Exceeds(tok, bound) == Len(tok) > 9 \/ NatOf(tok) > bound

\* the 4-byte image of a natural number below 2^31
ImageOf(x) == <<x % 256, (x \div 256) % 256, (x \div 65536) % 256, x \div 16777216>>

\* C1: for V non-numeric or greater than 16777215, the encoder run on
\* "id V" does not succeed and appends no attribute at all.
C1_IdAboveMaxRejected ==
    (/\ Len(args) = 2
     /\ args[1] = s_id
     /\ \/ NonNumeric(args[2])
        \/ (CanonDec(args[2]) /\ Exceeds(args[2], IdMax)))
    => (n = <<>> /\ ~(pc = "returned" /\ ret = 0))

\* the value of keyword kw on a command line that gives it exactly once
ValueAfter(kw) ==
    args[(CHOOSE i \in 1..(Len(args) - 1) : i % 2 = 1 /\ args[i] = kw) + 1]

RoundTripText ==
    s_fmt_id \o ValueAfter(s_id) \o SP \o
    s_fmt_label_in \o ValueAfter(s_input) \o SP \o
    s_fmt_out \o ValueAfter(s_output) \o SP \o
    s_fmt_vlan \o ValueAfter(s_vlan) \o SP \o
    s_fmt_via_inet \o ValueAfter(s_via) \o SP \o
    s_fmt_ttl \o ValueAfter(s_ttl) \o SP

\* C2: a command line giving id, vlan, ttl, input, output and via (IPv4)
\* once each with non-zero values, in any order, decodes to exactly
\* "id I label in L out O vlan V via inet A ttl T " with the values as
\* typed and no dev field.
C2_RoundTrip == pc = "printed" => out = RoundTripText

C2_Witness ==
    /\ pc = "printed"
    /\ args[1] = s_ttl /\ args[3] = s_via /\ args[11] = s_id
    /\ out = RoundTripText

\* positions of the "via" keywords whose value has (v6) or lacks a colon
ViaPositions(v6) ==
    {i \in 1..(Len(args) - 1) :
        i % 2 = 1 /\ Keyword(args[i]) = "via" /\ HasColon(args[i + 1]) = v6}

Last(S) == CHOOSE i \in S : \A j \in S : j <= i

LastVia4 ==
    IF ViaPositions(FALSE) = {} THEN Zero32
    ELSE inet_pton4(args[Last(ViaPositions(FALSE)) + 1]).addr

LastVia6 ==
    IF ViaPositions(TRUE) = {} THEN Zero128
    ELSE inet_pton6(args[Last(ViaPositions(TRUE)) + 1]).addr

NextHops(buf) ==
    {buf[k] : k \in {j \in 1..Len(buf) : buf[j].type \in {IFLA_VPLS_NH, IFLA_VPLS_NH6}}}

\* C3: after a successful parse the message holds at most one of NH and
\* NH6: NH with the last IPv4 "via" address if that is non-zero, else NH6
\* with the last IPv6 "via" address if that is not ::, else neither.
C3_NextHopChoice ==
    (pc = "returned" /\ ret = 0) =>
        /\ Count(n, IFLA_VPLS_NH) + Count(n, IFLA_VPLS_NH6) <= 1
        /\ NextHops(n) =
               IF LastVia4 # Zero32
               THEN {[type |-> IFLA_VPLS_NH, data |-> LastVia4]}
               ELSE IF LastVia6 # Zero128
               THEN {[type |-> IFLA_VPLS_NH6, data |-> LastVia6]}
               ELSE {}

C3_Witness ==
    /\ pc = "returned" /\ ret = 0
    /\ LastVia4 # Zero32 /\ LastVia6 # Zero128
    /\ Count(n, IFLA_VPLS_NH) = 1 /\ Count(n, IFLA_VPLS_NH6) = 0

LabelsFit ==
    \A k \in 1..Len(n) :
        n[k].type \in {IFLA_VPLS_IN_LABEL, IFLA_VPLS_OUT_LABEL}
            => (Len(n[k].data) = 4 /\ n[k].data[4] = 0 /\ n[k].data[3] <= 15)

LabelStep(kw, tag) ==
    (pc = "parse" /\ argc >= 2 /\ CurArg = kw /\ CanonDec(NextArg)) =>
        IF Exceeds(NextArg, LabelMax)
        THEN n' = n /\ pc' = "exited"
        ELSE /\ n' = Append(n, [type |-> tag, data |-> ImageOf(NatOf(NextArg))])
             /\ pc' = "parse"

\* C4: "input L" / "output L" with L in 0..1048575 appends exactly one
\* IN_LABEL / OUT_LABEL attribute of value L; a larger L is rejected with
\* nothing appended; no label attribute ever exceeds 1048575.
C4_Labels ==
    [][/\ LabelStep(s_input, IFLA_VPLS_IN_LABEL)
       /\ LabelStep(s_output, IFLA_VPLS_OUT_LABEL)
       /\ LabelsFit']_vars

C4_Witness ==
    /\ Len(n) = 2
    /\ n[1] = [type |-> IFLA_VPLS_IN_LABEL, data |-> <<255, 255, 15, 0>>]
    /\ n[2] = [type |-> IFLA_VPLS_OUT_LABEL, data |-> <<30, 0, 0, 0>>]

\* C5: every TTL attribute the encoder appends carries a value in 1..255.
C5_TtlAttrInRange ==
    \A k \in 1..Len(n) :
        n[k].type = IFLA_VPLS_TTL
            => (Len(n[k].data) = 1 /\ n[k].data[1] \in 1..TtlMax)

ValidId(t) == t # NULL /\ Has(t, IFLA_VPLS_ID) /\ Len(t[IFLA_VPLS_ID]) >= 4

Nh4Set(t) == Has(t, IFLA_VPLS_NH) /\ t[IFLA_VPLS_NH] # Zero32

Nh6Set(t) == Has(t, IFLA_VPLS_NH6) /\ t[IFLA_VPLS_NH6] # Zero128

\* C6: with a valid ID the decoder renders "via inet ADDR" if NH is present
\* and non-zero; otherwise "via inet6 ADDR" if NH6 is present and not ::
\* (also when NH is present but zero); never both.
C6_NextHopRendering ==
    (pc = "printed" /\ ValidId(tb)) =>
        /\ Contains(out, s_fmt_via_inet) <=> Nh4Set(tb)
        /\ Contains(out, s_fmt_via_inet6) <=> (~Nh4Set(tb) /\ Nh6Set(tb))
        /\ Nh4Set(tb) =>
               Contains(out, s_fmt_via_inet \o inet_ntop4(tb[IFLA_VPLS_NH]) \o SP)
        /\ (~Nh4Set(tb) /\ Nh6Set(tb)) =>
               Contains(out, s_fmt_via_inet6 \o inet_ntop6(tb[IFLA_VPLS_NH6]) \o SP)

Usage == [msg |-> "Usage", arg |-> <<>>]

\* what stopped the parse, read off the error stream
StoppedByHelp == pc = "returned" /\ err = <<Usage>>

StoppedByUnknown ==
    pc = "returned" /\ Len(err) = 2 /\ err[1].msg = "vpls: unknown command"

StoppedByBadValue == pc = "exited"

\* C7 as stated: the outcome signalled for "help" differs from the outcome
\* signalled for a parse error, an unknown keyword returning -1.
C7_HelpDistinctFromError ==
    /\ StoppedByUnknown => ret = -1
    /\ StoppedByHelp => ret # -1

\* C7 amended: "help" and an unknown keyword both return -1; a bad value,
\* device or address ends the process instead of returning; in every case
\* the parse has stopped and success is not returned.
C7_Outcomes ==
    /\ StoppedByHelp => (ret = -1 /\ argc > 0 /\ CurArg = s_help)
    /\ StoppedByUnknown => (ret = -1 /\ argc > 0 /\ Keyword(CurArg) = "unknown")
    /\ StoppedByBadValue => (ret = "none" /\ Len(err) = 1)
    /\ err # <<>> => (pc \in {"returned", "exited"} /\ ~(pc = "returned" /\ ret = 0))

C7_Witness ==
    /\ StoppedByHelp
    /\ ret = -1
    /\ Len(n) = 1

\* C8: without an ID tag, or with an ID payload shorter than 4 bytes, the
\* decoder writes nothing, whatever the other tags hold.
C8_NoIdNoOutput ==
    (pc = "printed" /\ (~Has(tb, IFLA_VPLS_ID) \/ Len(tb[IFLA_VPLS_ID]) < 4))
        => out = <<>>

C8_Witness ==
    /\ pc = "printed"
    /\ Has(tb, IFLA_VPLS_ID) /\ Len(tb[IFLA_VPLS_ID]) < 4
    /\ Has(tb, IFLA_VPLS_IN_LABEL) /\ tb[IFLA_VPLS_IN_LABEL] # Zero32
    /\ Has(tb, IFLA_VPLS_OIF)
    /\ Has(tb, IFLA_VPLS_TTL) /\ tb[IFLA_VPLS_TTL] # <<0>>
    /\ out = <<>>

\* field `tag` is rendered as `label VALUE ` iff present and non-zero
RenderedIffNonZero(tag, label, zero, text) ==
    IF Has(tb, tag) /\ tb[tag] # zero
    THEN Contains(out, label \o text \o SP)
    ELSE ~Contains(out, label)

ByteText(tag) == IF Has(tb, tag) THEN FormatU(U8to32(tb[tag][1])) ELSE <<>>

WordText(tag) == IF Has(tb, tag) THEN FormatU(tb[tag]) ELSE <<>>

\* C9: with a valid ID, IN_LABEL, OUT_LABEL, VLAN_ID and TTL are rendered
\* iff present and non-zero; OIF is rendered whenever present, by name or,
\* failing that, by number, also for index 0.
C9_FieldRendering ==
    (pc = "printed" /\ ValidId(tb)) =>
        /\ RenderedIffNonZero(IFLA_VPLS_IN_LABEL, s_fmt_label_in, Zero32,
                              WordText(IFLA_VPLS_IN_LABEL))
        /\ RenderedIffNonZero(IFLA_VPLS_OUT_LABEL, s_fmt_out, Zero32,
                              WordText(IFLA_VPLS_OUT_LABEL))
        /\ RenderedIffNonZero(IFLA_VPLS_VLANID, s_fmt_vlan, <<0>>,
                              ByteText(IFLA_VPLS_VLANID))
        /\ RenderedIffNonZero(IFLA_VPLS_TTL, s_fmt_ttl, <<0>>,
                              ByteText(IFLA_VPLS_TTL))
        /\ IF Has(tb, IFLA_VPLS_OIF)
           THEN Contains(out, s_fmt_dev \o
                    (IF tb[IFLA_VPLS_OIF] = <<2, 0, 0, 0>> THEN <<"e","t","h","0">>
                     ELSE FormatU(tb[IFLA_VPLS_OIF])) \o SP)
           ELSE ~Contains(out, s_fmt_dev)

C9_Witness ==
    /\ pc = "printed" /\ ValidId(tb)
    /\ Has(tb, IFLA_VPLS_OIF) /\ tb[IFLA_VPLS_OIF] = Zero32
    /\ Has(tb, IFLA_VPLS_TTL) /\ tb[IFLA_VPLS_TTL] = <<0>>
    /\ Has(tb, IFLA_VPLS_VLANID) /\ tb[IFLA_VPLS_VLANID] = <<5>>
    /\ Contains(out, <<"d","e","v"," ","0"," ">>)

TagOf(k) ==
    CASE k = "id" -> IFLA_VPLS_ID
      [] k = "vlan" -> IFLA_VPLS_VLANID
      [] k = "dev" -> IFLA_VPLS_OIF
      [] k = "ttl" -> IFLA_VPLS_TTL
      [] k = "input" -> IFLA_VPLS_IN_LABEL
      [] k = "output" -> IFLA_VPLS_OUT_LABEL

\* the tags the keyword clauses of a call for, left to right
RECURSIVE ExpectedTypes(_)
ExpectedTypes(a) ==
    IF Len(a) < 2 THEN <<>>
    ELSE LET k == Keyword(a[1]) IN
         (IF k = "via" \/ (k = "ttl" /\ a[2] = s_inherit) THEN <<>>
          ELSE <<TagOf(k)>>) \o ExpectedTypes(SubSeq(a, 3, Len(a)))

Types(buf) == [k \in 1..Len(buf) |-> buf[k].type]

\* C10: after a successful parse the attributes of id, vlan, dev, ttl,
\* input and output stand in keyword order, one per occurrence, and the
\* NH or NH6 attribute, if any, comes once and last; none is in the
\* message while the parse is still running.
C10_AttributeOrder ==
    /\ pc = "parse" => NextHops(n) = {}
    /\ (pc = "returned" /\ ret = 0) =>
           LET e == ExpectedTypes(args)
               t == Types(n)
           IN /\ Len(t) \in {Len(e), Len(e) + 1}
              /\ SubSeq(t, 1, Len(e)) = e
              /\ Len(t) = Len(e) + 1 => t[Len(t)] \in {IFLA_VPLS_NH, IFLA_VPLS_NH6}

C10_Witness ==
    /\ pc = "returned" /\ ret = 0
    /\ Len(args) = 4
    /\ Keyword(args[1]) = "via" /\ Keyword(args[3]) = "id"
    /\ Len(n) = 2
    /\ n[1].type = IFLA_VPLS_ID /\ n[2].type = IFLA_VPLS_NH

====
